---------------------------- MODULE Spec2Model ----------------------------
(***************************************************************************)
(* The data manager of myDB (src/dataManager/page.go): the page layout,   *)
(* the free-space index PageCtlImpl and the record manager DmImpl.        *)
(*                                                                         *)
(* Three specifications are given.                                         *)
(*   SpecPage clients drive the Page interface on one data page (Append,   *)
(*            Update, GetUsed, SetUsed).                                   *)
(*   SpecCtl  a client drives the PageCtl interface (AddPageInfo, Select). *)
(*   Spec     clients drive the DataManager interface (OpenDataManager,    *)
(*            Read, Update, Insert, Delete, Close); the process may be     *)
(*            killed at any step and opened again.                         *)
(*                                                                         *)
(* A byte string is written [len, fill]: len bytes, each equal to fill.    *)
(* A uid is written as its two 32-bit halves [hi, lo].                     *)
(***************************************************************************)
EXTENDS Integers, Sequences, FiniteSets, TLC

----------------------------------------------------------------------------
(* Program constants. *)

PageSize == 8192
SzPgUsed == 4
SzPageType == 4
MaxFreeSize == PageSize - SzPgUsed - SzPageType
InitOffset == SzPgUsed + SzPageType

DbMetaPage == 32769
DataPage == 2

THRESHOLD == 128
TinyTHRESHOLD == THRESHOLD \div 4
INTERVALS == PageSize \div THRESHOLD
Omitted == 8

PageNumberDbMeta == 1

\* RAW [valid]1[size]8[data]
SzDIValid == 1
SzDIDataSize == 8

----------------------------------------------------------------------------
(* Bounds of the model. *)

\* Threads calling the interfaces concurrently.
MaxThreads == 2
\* Transaction identifiers the upper layer uses.
MaxXid == 1
\* The 8-byte version values rand.Read may produce are 0..MaxVersion.
MaxVersion == 1
\* Entries a client of PageCtl adds (SpecCtl).
MaxEntries == 2
\* Redo-log records written in one run.
MaxLog == 1

Threads == 1..MaxThreads
Xids == 1..MaxXid
Versions == 0..MaxVersion

None == [kind |-> "none"]

\* no call in progress
NoOp == [kind |-> "none", xid |-> 0, uid |-> None, data |-> None, need |-> 0,
         di |-> None, inDelete |-> FALSE, offset |-> 0, stage |-> "-"]

\* nothing has happened to the store yet
NoBy == [kind |-> "none", pc |-> "-"]

NoHist == [exit |-> "fresh", at |-> "-", why |-> "-", by |-> NoBy,
           checked |-> "-", recovered |-> FALSE, drawn |-> -1, shadow0 |-> -1,
           deleted |-> {}]

\* Payloads the callers pass: two small ones, the largest one a page takes
\* (framed length MaxFreeSize) and one byte more.
Payloads == {[len |-> 1, fill |-> "x"], [len |-> 8, fill |-> "y"],
             [len |-> MaxFreeSize - 9, fill |-> "z"],
             [len |-> MaxFreeSize - 8, fill |-> "w"]}

\* Free-byte counts and page ids a client of PageCtl passes to AddPageInfo,
\* and the needs it passes to Select (SpecCtl): the boundaries of the tiny
\* container and of the first, second and last bucket.
CtlAvails == {7, 8, 20, 32, 100, 200, 8170}
CtlPages == {2, 3}
CtlNeeds == {10, 20, 31, 32, 50, 130, 8192}

\* Offsets and used counts a client of Page passes to Update and SetUsed
\* (SpecPage): the first record, and places near the end of the page.
PgOffsets == {InitOffset, PageSize - 9}
PgUseds == {InitOffset, PageSize}

VARIABLES
    proc,      \* the process: "down", or its position in init / Close
    disk,      \* the paged file: [vLive, vShadow, pages]
    mem,       \* the page buffers of the running process, same shape
    pin,       \* the page cache's pin count of every page
    rlog,      \* the redo log (durable)
    tm,        \* the transaction manager: status of every xid
    hist,      \* what the last start-up / shutdown did
    index,     \* PageCtlImpl: [free, tiny]
    ctlLock,   \* PageCtlImpl.lock is held
    pc,        \* every thread's position
    op,        \* every thread's current call
    ret,       \* every thread's last result
    pageLock   \* the thread holding PageImpl.lock of the data page, or 0

dmVars == <<proc, disk, mem, pin, rlog, tm, hist>>
ctlVars == <<index, ctlLock>>
thrVars == <<pc, op, ret>>
vars == <<proc, disk, mem, pin, rlog, tm, hist, index, ctlLock, pc, op, ret,
         pageLock>>

----------------------------------------------------------------------------
(* Page. *)

\* pageType & (1 << bit), for bit 0 or 1
BitAnd(pageType, bit) ==
    IF bit = 0 THEN pageType % 2 ELSE 2 * ((pageType \div 2) % 2)

IsMetaPage(pageType) == BitAnd(pageType, 0) = 1

\* the source compares pageType & (1<<1) with 1
IsDataPage(pageType) == BitAnd(pageType, 1) = 1

GetUsed(page) == page.used

GetFree(page) == PageSize - GetUsed(page)

CheckInitVersion(meta) == meta.vLive = meta.vShadow

InitVersion(meta, r) == [meta EXCEPT !.vLive = r]

\* UpdateVersion copying V_shadow onto itself
UpdateVersionOntoItself(meta) == [meta EXCEPT !.vShadow = meta.vShadow]

UpdateVersion(meta) == [meta EXCEPT !.vShadow = meta.vLive]

----------------------------------------------------------------------------
(* DataItem and uid. *)

WrapDataItemRaw(data) == [valid |-> 1, size |-> data.len, fill |-> data.fill]

RawLen(raw) == SzDIValid + SzDIDataSize + raw.size

SetRawInvalid(raw) == [raw EXCEPT !.valid = 0]

IsValid(raw) == raw.valid = 1

GetData(raw) == [len |-> raw.size, fill |-> raw.fill]

getUid(pageId, offset) == [hi |-> pageId, lo |-> offset]

uidTrans(uid) == <<uid.hi, uid.lo>>

\* the frame that starts at offset of the page
getDataItem(page, offset) == page.items[offset]

----------------------------------------------------------------------------
(* PageCtl: the free-space index. *)

PageInfo(pageId, available) == [PageId |-> pageId, Available |-> available]

NewPageCtl == [free |-> [i \in 0..(INTERVALS - 1) |-> <<>>], tiny |-> {}]

\* SkipList.BinarySearch: the entries a search for "at least key" may yield
BinarySearch(tiny, key) == {e \in tiny : e.Available >= key}

\* LinkedList.FindGtAndRemove: position of the first entry with at least
\* need bytes, 0 when there is none
FindGt(list, need) ==
    LET hits == {i \in 1..Len(list) : list[i].Available >= need}
    IN  IF hits = {} THEN 0 ELSE CHOOSE i \in hits : \A j \in hits : i <= j

RemoveAt(list, i) == SubSeq(list, 1, i - 1) \o SubSeq(list, i + 1, Len(list))

\* selectTinyFast with the fields of the search key swapped
selectTinyFastSwapped(tiny, need) ==
    IF need < TinyTHRESHOLD THEN BinarySearch(tiny, -1) ELSE {}

selectTinyFast(tiny, need) ==
    IF need < TinyTHRESHOLD THEN BinarySearch(tiny, need) ELSE {}

\* the bucket Select scans first
SelectStart(need) ==
    LET intervalNum == IF need < TinyTHRESHOLD THEN 0 ELSE need \div THRESHOLD
    IN  IF intervalNum # INTERVALS THEN intervalNum + 1 ELSE intervalNum

\* the loop of Select from bucket intervalNum on; free has the buckets
\* 0..INTERVALS-1 and the loop runs while intervalNum <= INTERVALS
RECURSIVE ScanBuckets(_, _, _)
ScanBuckets(idx, intervalNum, need) ==
    IF intervalNum > INTERVALS
    THEN [ret |-> [kind |-> "nil"], index |-> idx]
    ELSE IF intervalNum \notin DOMAIN idx.free
    THEN [ret |-> [kind |-> "panic", why |-> "index out of range"], index |-> idx]
    ELSE LET i == FindGt(idx.free[intervalNum], need)
         IN  IF i # 0
             THEN [ret |-> [kind |-> "entry", info |-> idx.free[intervalNum][i]],
                   index |-> [idx EXCEPT !.free[intervalNum] = RemoveAt(@, i)]]
             ELSE ScanBuckets(idx, intervalNum + 1, need)

\* what the body of Select may come to at its return statement, and the
\* index it leaves
SelectOutcomes(idx, need) ==
    IF need <= 0 \/ need > PageSize
    THEN {[ret |-> [kind |-> "panic", why |-> "illegal need"], index |-> idx]}
    ELSE IF selectTinyFast(idx.tiny, need) # {}
    THEN {[ret |-> [kind |-> "entry", info |-> e], index |-> idx] :
            e \in selectTinyFast(idx.tiny, need)}
    ELSE {ScanBuckets(idx, SelectStart(need), need)}

\* the index after AddPageInfo(pageId, available)
AddPageInfo(idx, pageId, available) ==
    IF available < Omitted THEN idx
    ELSE IF available < TinyTHRESHOLD
    THEN [idx EXCEPT !.tiny = @ \cup {PageInfo(pageId, available)}]
    ELSE [idx EXCEPT !.free[available \div THRESHOLD] =
                        Append(@, PageInfo(pageId, available))]

\* PageCtlImpl.Init: the pages 2..n in order, each added when IsDataPage
RECURSIVE CtlInitFrom(_, _, _)
CtlInitFrom(idx, pages, i) ==
    IF i \notin DOMAIN pages THEN idx
    ELSE CtlInitFrom(
            IF IsDataPage(pages[i].ptype)
            THEN AddPageInfo(idx, i, GetFree(pages[i]))
            ELSE idx,
            pages, i + 1)

CtlInit(idx, pages) == CtlInitFrom(idx, pages, PageNumberDbMeta + 1)

\* the entries the index holds
IndexEntries(idx) ==
    idx.tiny \cup
    UNION {{idx.free[i][j] : j \in 1..Len(idx.free[i])} : i \in DOMAIN idx.free}

\* how many entries the index holds
RECURSIVE BucketsSize(_, _)
BucketsSize(free, i) ==
    IF i \notin DOMAIN free THEN 0 ELSE Len(free[i]) + BucketsSize(free, i + 1)

IndexSize(idx) == Cardinality(idx.tiny) + BucketsSize(idx.free, 0)

----------------------------------------------------------------------------
(* Select, as every caller runs it: Lock, the body, and the deferred call, *)
(* which is Lock again on the mutex the call itself holds.  sync.Mutex is  *)
(* not reentrant and nothing else unlocks PageCtlImpl.lock, so the         *)
(* goroutine stays parked at "SelectDeferLock" for as long as the process  *)
(* lives; a panic of the body runs the same deferred call.                 *)

SelectLock(t) ==
    /\ pc[t] = "SelectLock"
    /\ ~ctlLock
    /\ ctlLock' = TRUE
    /\ pc' = [pc EXCEPT ![t] = "SelectBody"]
    /\ UNCHANGED <<index, op, ret, dmVars, pageLock>>

SelectBody(t) ==
    /\ pc[t] = "SelectBody"
    /\ ctlLock
    /\ \E o \in SelectOutcomes(index, op[t].need) :
          /\ index' = o.index
          /\ ret' = [ret EXCEPT ![t] = o.ret]
    /\ pc' = [pc EXCEPT ![t] = "SelectDeferLock"]
    /\ UNCHANGED <<ctlLock, op, dmVars, pageLock>>

----------------------------------------------------------------------------
(* SpecCtl: a client of the PageCtl interface. *)

\* AddPageInfo returns before locking when available < OMITTED
CtlAddPageInfo(pageId, available) ==
    /\ proc = "ctl"
    /\ available < Omitted \/ ~ctlLock
    /\ IndexSize(index) < MaxEntries
    /\ index' = AddPageInfo(index, pageId, available)
    /\ UNCHANGED <<ctlLock, thrVars, dmVars, pageLock>>

CtlSelect(t, need) ==
    /\ proc = "ctl"
    /\ pc[t] = "idle"
    /\ op' = [op EXCEPT ![t] = [NoOp EXCEPT !.kind = "select", !.need = need]]
    /\ pc' = [pc EXCEPT ![t] = "SelectLock"]
    /\ UNCHANGED <<ret, ctlVars, dmVars, pageLock>>

InitCtl ==
    /\ proc = "ctl"
    /\ disk = [ptype |-> DbMetaPage, vLive |-> 0, vShadow |-> 0, pages |-> <<>>]
    /\ mem = disk
    /\ pin = (PageNumberDbMeta :> 0)
    /\ rlog = <<>>
    /\ tm = [x \in Xids |-> "active"]
    /\ hist = NoHist
    /\ index = NewPageCtl
    /\ ctlLock = FALSE
    /\ pc = [t \in Threads |-> "idle"]
    /\ op = [t \in Threads |-> NoOp]
    /\ ret = [t \in Threads |-> None]
    /\ pageLock = 0

NextCtl ==
    \/ \E p \in CtlPages, a \in CtlAvails : CtlAddPageInfo(p, a)
    \/ \E t \in Threads, n \in CtlNeeds : CtlSelect(t, n)
    \/ \E t \in Threads : SelectLock(t)
    \/ \E t \in Threads : SelectBody(t)

SpecCtl == InitCtl /\ [][NextCtl]_vars

----------------------------------------------------------------------------
(* The collaborators of DmImpl: page cache, redo log, transaction manager. *)

\* the frame WriteFrame leaves at uid
WriteFrame(pages, uid, raw) ==
    [pages EXCEPT ![uidTrans(uid)[1]].items[uidTrans(uid)[2]] = raw]

\* Log.CrashRecover: the records of committed transactions are applied
\* again in log order ...
RECURSIVE Redo(_, _, _, _)
Redo(pages, log, i, tmv) ==
    IF i > Len(log) THEN pages
    ELSE Redo(IF tmv[log[i].xid] = "committed"
              THEN WriteFrame(pages, log[i].uid, log[i].new)
              ELSE pages,
              log, i + 1, tmv)

\* ... and those of the other transactions are taken back, last first
RECURSIVE Undo(_, _, _, _)
Undo(pages, log, i, tmv) ==
    IF i < 1 THEN pages
    ELSE Undo(IF tmv[log[i].xid] # "committed"
              THEN WriteFrame(pages, log[i].uid, log[i].old)
              ELSE pages,
              log, i - 1, tmv)

CrashRecover(pages, log, tmv) == Undo(Redo(pages, log, 1, tmv), log, Len(log), tmv)

\* the transactions that have written a log record
Writers(log) == {log[i].xid : i \in 1..Len(log)}

\* the transaction manager after the process has died: a transaction that
\* was still active can no longer commit
TmAfterDeath(tmv, log) ==
    [x \in Xids |-> IF tmv[x] = "active" /\ x \in Writers(log)
                    THEN "aborted" ELSE tmv[x]]

\* the uids of the records of the store
Uids(pages) ==
    UNION {{getUid(p, o) : o \in DOMAIN pages[p].items} : p \in DOMAIN pages}

\* calls in flight that will still write a log record
PendingWrites ==
    Cardinality({t \in Threads : op[t].kind \in {"update", "delete"}})

\* the upper layer (the version manager) lets a transaction write a record
\* only when no other transaction has an unfinished write of it
WriteAllowed(xid, uid) ==
    /\ \A t \in Threads :
          op[t].kind \in {"update", "delete"} => op[t].uid # uid
    /\ \A i \in 1..Len(rlog) :
          rlog[i].uid = uid => (rlog[i].xid = xid \/ tm[rlog[i].xid] = "committed")

----------------------------------------------------------------------------
(* The paged files OpenDataManager is given. *)

Rec(valid, size, fill) == [valid |-> valid, size |-> size, fill |-> fill]

\* one data page: a live record of 5 bytes at 8, a tombstoned one of 1 byte
\* at 22
FilePage ==
    [used |-> InitOffset + 14 + 10, ptype |-> DataPage,
     items |-> (InitOffset :> Rec(1, 5, "a") @@ (InitOffset + 14) :> Rec(0, 1, "c"))]

Files == {<<>>, (PageNumberDbMeta + 1) :> FilePage}

----------------------------------------------------------------------------
(* SpecPage: clients of the Page interface write one data page (page 2).   *)
(* PageImpl.lock is a sync.RWMutex: Lock waits until no goroutine holds     *)
(* it, RLock until no writer holds it, and neither is reentrant.  The       *)
(* read-locked section of GetUsed is one step, so the state of the lock is  *)
(* the writer that holds it.                                                *)

PgId == PageNumberDbMeta + 1

PgPage == mem.pages[PgId]

\* the page with toUp written at offset (copy)
PgWrite(page, offset, raw) ==
    [page EXCEPT !.items = (offset :> raw) @@ @]

\* the page after SetUsed(used)
SetUsed(page, used) == [page EXCEPT !.used = used]

\* the pages a client starts from: fresh, holding two records, full
PgPages ==
    {[used |-> InitOffset, ptype |-> DataPage, items |-> <<>>],
     FilePage,
     [used |-> PageSize, ptype |-> DataPage,
      items |-> (InitOffset :> Rec(1, MaxFreeSize - 9, "z"))]}

PgAppend(t, data) ==
    /\ proc = "page"
    /\ pc[t] = "idle"
    /\ op' = [op EXCEPT ![t] = [NoOp EXCEPT !.kind = "append", !.data = data,
                                            !.stage = "start"]]
    /\ pc' = [pc EXCEPT ![t] = "PgLock"]
    /\ ret' = [ret EXCEPT ![t] = None]
    /\ UNCHANGED <<dmVars, ctlVars, pageLock>>

PgUpdate(t, data, offset) ==
    /\ proc = "page"
    /\ pc[t] = "idle"
    /\ op' = [op EXCEPT ![t] = [NoOp EXCEPT !.kind = "pupdate", !.data = data,
                                            !.offset = offset, !.stage = "start"]]
    /\ pc' = [pc EXCEPT ![t] = "PgLock"]
    /\ ret' = [ret EXCEPT ![t] = None]
    /\ UNCHANGED <<dmVars, ctlVars, pageLock>>

PgGetUsed(t) ==
    /\ proc = "page"
    /\ pc[t] = "idle"
    /\ op' = [op EXCEPT ![t] = [NoOp EXCEPT !.kind = "getused"]]
    /\ pc' = [pc EXCEPT ![t] = "PgRLock"]
    /\ ret' = [ret EXCEPT ![t] = None]
    /\ UNCHANGED <<dmVars, ctlVars, pageLock>>

PgSetUsed(t, used) ==
    /\ proc = "page"
    /\ pc[t] = "idle"
    /\ op' = [op EXCEPT ![t] = [NoOp EXCEPT !.kind = "setused", !.offset = used,
                                            !.stage = "setused"]]
    /\ pc' = [pc EXCEPT ![t] = "PgLock"]
    /\ ret' = [ret EXCEPT ![t] = None]
    /\ UNCHANGED <<dmVars, ctlVars, pageLock>>

\* thread t returns from its call
PgReturn(t, result) ==
    /\ ret' = [ret EXCEPT ![t] = result]
    /\ pc' = [pc EXCEPT ![t] = "idle"]
    /\ op' = [op EXCEPT ![t] = NoOp]

\* thread t goes on to the next lock of its call
PgGoOn(t, position, stage) ==
    /\ pc' = [pc EXCEPT ![t] = position]
    /\ op' = [op EXCEPT ![t].stage = stage]
    /\ UNCHANGED ret

\* p.lock.Lock() is granted and the call runs up to its next lock:
\*   Append and Update at their entry (the deferred Unlock runs on return),
\*   SetUsed and SetDirty, called alone or from Append and Update
PgLock(t) ==
    /\ pc[t] = "PgLock"
    /\ pageLock = 0
    /\ LET raw == WrapDataItemRaw(op[t].data)
           length == RawLen(raw)
       IN  IF op[t].kind = "append" /\ op[t].stage = "start"
           THEN /\ pageLock' = t
                /\ PgGoOn(t, "PgRLock", "getused")
                /\ UNCHANGED mem
           ELSE IF op[t].kind = "pupdate" /\ op[t].stage = "start"
           THEN IF length + op[t].offset > PageSize
                THEN /\ PgReturn(t, [kind |-> "error", why |-> "Page Space overflow"])
                     /\ UNCHANGED <<mem, pageLock>>
                ELSE /\ mem' = [mem EXCEPT !.pages[PgId] =
                                    PgWrite(@, op[t].offset, raw)]
                     /\ pageLock' = t
                     /\ PgGoOn(t, "PgRLock", "getused")
           ELSE IF op[t].kind = "setused"
           THEN /\ mem' = [mem EXCEPT !.pages[PgId] = SetUsed(@, op[t].offset)]
                /\ PgReturn(t, [kind |-> "done"])
                /\ UNCHANGED pageLock
           ELSE IF op[t].stage = "setused"
           THEN /\ mem' = [mem EXCEPT !.pages[PgId] =
                               SetUsed(@, IF op[t].kind = "append"
                                          THEN op[t].offset + length
                                          ELSE length + op[t].offset)]
                /\ PgGoOn(t, "PgLock", "setdirty")
                /\ UNCHANGED pageLock
           ELSE /\ PgReturn(t, [kind |-> "ok"])
                /\ pageLock' = 0
                /\ UNCHANGED mem
    /\ UNCHANGED <<proc, disk, pin, rlog, tm, hist, ctlVars>>

\* p.lock.RLock() of GetUsed is granted, used is read and the lock is
\* dropped; the call runs up to its next lock
PgRLock(t) ==
    /\ pc[t] = "PgRLock"
    /\ pageLock = 0
    /\ LET raw == WrapDataItemRaw(op[t].data)
           length == RawLen(raw)
           used == GetUsed(PgPage)
       IN  IF op[t].kind = "getused"
           THEN /\ PgReturn(t, [kind |-> "used", used |-> used])
                /\ UNCHANGED mem
           ELSE IF op[t].kind = "append"
           THEN IF length + used > PageSize
                THEN /\ PgReturn(t, [kind |-> "error", why |-> "Page Space overflow"])
                     /\ UNCHANGED mem
                ELSE /\ mem' = [mem EXCEPT !.pages[PgId] = PgWrite(@, used, raw)]
                     /\ pc' = [pc EXCEPT ![t] = "PgLock"]
                     /\ op' = [op EXCEPT ![t].stage = "setused", ![t].offset = used]
                     /\ UNCHANGED ret
           ELSE /\ PgGoOn(t, "PgLock",
                          IF length + op[t].offset > used THEN "setused"
                          ELSE "setdirty")
                /\ UNCHANGED mem
    /\ UNCHANGED <<proc, disk, pin, rlog, tm, hist, ctlVars, pageLock>>

InitPage ==
    /\ proc = "page"
    /\ \E page \in PgPages :
          disk = [ptype |-> DbMetaPage, vLive |-> 0, vShadow |-> 0,
                  pages |-> (PgId :> page)]
    /\ mem = disk
    /\ pin = (PageNumberDbMeta :> 0) @@ (PgId :> 1)
    /\ rlog = <<>>
    /\ tm = [x \in Xids |-> "active"]
    /\ hist = NoHist
    /\ index = NewPageCtl
    /\ ctlLock = FALSE
    /\ pc = [t \in Threads |-> "idle"]
    /\ op = [t \in Threads |-> NoOp]
    /\ ret = [t \in Threads |-> None]
    /\ pageLock = 0

NextPage ==
    \/ \E t \in Threads, d \in Payloads : PgAppend(t, d)
    \/ \E t \in Threads, d \in Payloads, o \in PgOffsets : PgUpdate(t, d, o)
    \/ \E t \in Threads : PgGetUsed(t)
    \/ \E t \in Threads, u \in PgUseds : PgSetUsed(t, u)
    \/ \E t \in Threads : PgLock(t)
    \/ \E t \in Threads : PgRLock(t)

SpecPage == InitPage /\ [][NextPage]_vars

----------------------------------------------------------------------------
(* The end of the process: Close, a kill, or a panic. *)

\* what is left when the process is gone: the file, the log and the
\* transaction manager's file
Gone(how, at, why, by) ==
    /\ proc' = "down"
    /\ mem' = disk'
    /\ pin' = [p \in DOMAIN pin |-> 0]
    /\ tm' = TmAfterDeath(tm, rlog)
    /\ hist' = [hist EXCEPT !.exit = how, !.at = at, !.why = why, !.by = by,
                            !.deleted = IF how = "killed" THEN {} ELSE @]
    /\ index' = NewPageCtl
    /\ ctlLock' = FALSE
    /\ pc' = [t \in Threads |-> "idle"]
    /\ op' = [t \in Threads |-> NoOp]
    /\ ret' = [t \in Threads |-> None]
    /\ pageLock' = 0
    /\ UNCHANGED rlog

\* a panic of thread t ends the process
Panic(t, why) ==
    /\ disk' = disk
    /\ Gone("panic", proc, why, [kind |-> op[t].kind, pc |-> pc[t]])

\* the process is killed
Kill ==
    /\ proc \notin {"down", "ctl"}
    /\ disk' = disk
    /\ Gone("killed", proc, "-", NoBy)

----------------------------------------------------------------------------
(* OpenDataManager and DmImpl.init. *)

\* init with the check of the markers taken the wrong way round
NeedsRecoveryInverted(meta) == CheckInitVersion(meta)

\* init replays the log when the check of the markers fails
NeedsRecovery(meta) == ~CheckInitVersion(meta)

\* the page cache, index and log are constructed, the meta page is pinned
\* and checked, and the log is replayed when the markers differ
Open ==
    /\ proc = "down"
    /\ disk.ptype = DbMetaPage
    /\ LET clean == CheckInitVersion(disk)
           pages == IF NeedsRecovery(disk) THEN CrashRecover(disk.pages, rlog, tm)
                    ELSE disk.pages
       IN  /\ disk' = [disk EXCEPT !.pages = pages]
           /\ mem' = disk'
           /\ hist' = [hist EXCEPT !.checked = IF clean THEN "true" ELSE "false",
                                   !.recovered = NeedsRecovery(disk)]
    /\ pin' = [pin EXCEPT ![PageNumberDbMeta] = 1]
    /\ index' = NewPageCtl
    /\ ctlLock' = FALSE
    /\ proc' = "InitResetLog"
    /\ UNCHANGED <<rlog, tm, thrVars, pageLock>>

InitResetLog ==
    /\ proc = "InitResetLog"
    /\ rlog' = <<>>
    /\ proc' = "InitVersion"
    /\ UNCHANGED <<disk, mem, pin, tm, hist, ctlVars, thrVars, pageLock>>

\* rand.Read fills V_live
InitVersionStep ==
    /\ proc = "InitVersion"
    /\ \E r \in Versions :
          /\ mem' = InitVersion(mem, r)
          /\ hist' = [hist EXCEPT !.drawn = r, !.shadow0 = mem.vShadow]
    /\ proc' = "InitFlush"
    /\ UNCHANGED <<disk, pin, rlog, tm, ctlVars, thrVars, pageLock>>

\* init without the flush of the meta page
InitFlushSkipped ==
    /\ proc = "InitFlush"
    /\ proc' = "InitPageCtl"
    /\ UNCHANGED <<disk, mem, pin, rlog, tm, hist, ctlVars, thrVars, pageLock>>

\* PageCache.DoFlush(metaPage)
InitFlush ==
    /\ proc = "InitFlush"
    /\ disk' = [disk EXCEPT !.vLive = mem.vLive, !.vShadow = mem.vShadow]
    /\ proc' = "InitPageCtl"
    /\ UNCHANGED <<mem, pin, rlog, tm, hist, ctlVars, thrVars, pageLock>>

InitPageCtl ==
    /\ proc = "InitPageCtl"
    /\ index' = CtlInit(index, mem.pages)
    /\ proc' = "running"
    /\ UNCHANGED <<disk, mem, pin, rlog, tm, hist, ctlLock, thrVars, pageLock>>

----------------------------------------------------------------------------
(* DmImpl.Close, called when no call is in progress. *)

CloseUpdateVersion ==
    /\ proc = "running"
    /\ \A t \in Threads : pc[t] = "idle"
    /\ mem' = UpdateVersion(mem)
    /\ proc' = "CloseCache"
    /\ UNCHANGED <<disk, pin, rlog, tm, hist, ctlVars, thrVars, pageLock>>

\* the meta page is released and the cache writes its pages and closes
CloseCache ==
    /\ proc = "CloseCache"
    /\ disk' = mem
    /\ Gone("clean", "-", "-", NoBy)

\* the cache writes a page it holds, when it chooses to
Flush(p) ==
    /\ proc = "running"
    /\ mem.pages[p] # disk.pages[p]
    /\ disk' = [disk EXCEPT !.pages[p] = mem.pages[p]]
    /\ UNCHANGED <<proc, mem, pin, rlog, tm, hist, ctlVars, thrVars, pageLock>>

\* the upper layer commits a transaction none of its calls is running for
TmCommit(x) ==
    /\ proc = "running"
    /\ tm[x] = "active"
    /\ x \in Writers(rlog)
    /\ \A t \in Threads : op[t].xid # x
    /\ tm' = [tm EXCEPT ![x] = "committed"]
    /\ UNCHANGED <<proc, disk, mem, pin, rlog, hist, ctlVars, thrVars, pageLock>>

----------------------------------------------------------------------------
(* The calls of the DataManager interface; a call runs in its thread.      *)

\* the page and the offset of the current call's uid
PageOf(t) == uidTrans(op[t].uid)[1]
OffsetOf(t) == uidTrans(op[t].uid)[2]

\* PageCache.ReleasePage fails on a page that is not pinned
CanRelease(p) == pin[p] > 0

\* what Read(uid) returns on these pages
ReadResult(pages, uid) ==
    LET item == getDataItem(pages[uidTrans(uid)[1]], uidTrans(uid)[2])
    IN  IF IsValid(item)
        THEN [kind |-> "item", uid |-> uid, data |-> GetData(item)]
        ELSE [kind |-> "nil", uid |-> uid]

Read(t, uid) ==
    /\ proc = "running"
    /\ pc[t] = "idle"
    /\ op' = [op EXCEPT ![t] = [NoOp EXCEPT !.kind = "read", !.uid = uid]]
    /\ pc' = [pc EXCEPT ![t] = "ReadGetPage"]
    /\ ret' = [ret EXCEPT ![t] = None]
    /\ UNCHANGED <<dmVars, ctlVars, pageLock>>

Update(t, xid, uid, data) ==
    /\ proc = "running"
    /\ pc[t] = "idle"
    /\ tm[xid] = "active"
    /\ WriteAllowed(xid, uid)
    /\ Len(rlog) + PendingWrites < MaxLog
    /\ op' = [op EXCEPT ![t] = [NoOp EXCEPT !.kind = "update", !.xid = xid,
                                            !.uid = uid, !.data = data]]
    /\ pc' = [pc EXCEPT ![t] = "ReadGetPage"]
    /\ ret' = [ret EXCEPT ![t] = None]
    /\ UNCHANGED <<dmVars, ctlVars, pageLock>>

Delete(t, xid, uid) ==
    /\ proc = "running"
    /\ pc[t] = "idle"
    /\ tm[xid] = "active"
    /\ WriteAllowed(xid, uid)
    /\ Len(rlog) + PendingWrites < MaxLog
    /\ op' = [op EXCEPT ![t] = [NoOp EXCEPT !.kind = "delete", !.xid = xid,
                                            !.uid = uid, !.inDelete = TRUE]]
    /\ pc' = [pc EXCEPT ![t] = "ReadGetPage"]
    /\ ret' = [ret EXCEPT ![t] = None]
    /\ UNCHANGED <<dmVars, ctlVars, pageLock>>

\* the start of Insert, up to the call of Select
InsertEnter(t, kind, xid, data) ==
    IF RawLen(WrapDataItemRaw(data)) > MaxFreeSize
    THEN Panic(t, "data length overflow")
    ELSE /\ op' = [op EXCEPT ![t] = [NoOp EXCEPT !.kind = kind, !.xid = xid,
                                      !.data = data,
                                      !.need = RawLen(WrapDataItemRaw(data))]]
         /\ pc' = [pc EXCEPT ![t] = "SelectLock"]
         /\ ret' = [ret EXCEPT ![t] = None]
         /\ UNCHANGED <<disk, mem, rlog, tm, hist, proc, ctlVars, pageLock>>

Insert(t, xid, data) ==
    /\ proc = "running"
    /\ pc[t] = "idle"
    /\ tm[xid] = "active"
    /\ InsertEnter(t, "insert", xid, data)
    /\ UNCHANGED pin

\* Read: the page is pinned
ReadGetPage(t) ==
    /\ pc[t] = "ReadGetPage"
    /\ IF PageOf(t) \notin DOMAIN mem.pages
       THEN Panic(t, "getting page")
       ELSE /\ pin' = [pin EXCEPT ![PageOf(t)] = @ + 1]
            /\ pc' = [pc EXCEPT ![t] = "ReadRelease"]
            /\ UNCHANGED <<proc, disk, mem, rlog, tm, hist, ctlVars, op, ret, pageLock>>

\* Read: the item is built, its page is released, and the item (or nil) is
\* returned to the caller, which is the client, Update or Delete
ReadRelease(t) ==
    /\ pc[t] = "ReadRelease"
    /\ LET item == getDataItem(mem.pages[PageOf(t)], OffsetOf(t))
           di == IF IsValid(item) THEN [kind |-> "item", len |-> RawLen(item)]
                 ELSE [kind |-> "nil"]
       IN  IF ~CanRelease(PageOf(t))
           THEN Panic(t, "release of an unpinned page")
           ELSE IF op[t].kind = "update" /\ ~op[t].inDelete /\ di.kind = "nil"
           THEN Panic(t, "update of an invalid item")
           ELSE /\ pin' = [pin EXCEPT ![PageOf(t)] = @ - 1]
                /\ UNCHANGED <<proc, disk, mem, rlog, tm, hist, ctlVars, pageLock>>
                /\ IF op[t].kind = "read"
                   THEN /\ ret' = [ret EXCEPT ![t] = ReadResult(mem.pages, op[t].uid)]
                        /\ pc' = [pc EXCEPT ![t] = "idle"]
                        /\ op' = [op EXCEPT ![t] = NoOp]
                   ELSE IF op[t].inDelete
                   THEN /\ op' = [op EXCEPT ![t].di = di]
                        /\ pc' = [pc EXCEPT ![t] =
                               IF di.kind = "nil" THEN "DeleteRelease"
                               ELSE "DeleteLog"]
                        /\ UNCHANGED ret
                   ELSE IF di.len >= RawLen(WrapDataItemRaw(op[t].data))
                   THEN /\ op' = [op EXCEPT ![t].di = di]
                        /\ pc' = [pc EXCEPT ![t] = "UpdateLog"]
                        /\ UNCHANGED ret
                   ELSE /\ op' = [op EXCEPT ![t].di = di, ![t].inDelete = TRUE]
                        /\ pc' = [pc EXCEPT ![t] = "ReadGetPage"]
                        /\ UNCHANGED ret

\* Update in place with the log record left out
UpdateLogSkipped(t) ==
    /\ pc[t] = "UpdateLog"
    /\ pc' = [pc EXCEPT ![t] = "UpdateItem"]
    /\ UNCHANGED <<proc, disk, mem, pin, rlog, tm, hist, ctlVars, op, ret, pageLock>>

\* Update in place: LOG FIRST
UpdateLog(t) ==
    /\ pc[t] = "UpdateLog"
    /\ rlog' = Append(rlog, [kind |-> "update", xid |-> op[t].xid, uid |-> op[t].uid,
                             old |-> getDataItem(mem.pages[PageOf(t)], OffsetOf(t)),
                             new |-> WrapDataItemRaw(op[t].data)])
    /\ pc' = [pc EXCEPT ![t] = "UpdateItem"]
    /\ UNCHANGED <<proc, disk, mem, pin, tm, hist, ctlVars, op, ret, pageLock>>

\* Update in place: di.Update(newRaw)
UpdateItem(t) ==
    /\ pc[t] = "UpdateItem"
    /\ mem' = [mem EXCEPT !.pages = WriteFrame(@, op[t].uid, WrapDataItemRaw(op[t].data))]
    /\ pc' = [pc EXCEPT ![t] = "UpdateRelease"]
    /\ UNCHANGED <<proc, disk, pin, rlog, tm, hist, ctlVars, op, ret, pageLock>>

\* Update in place: di.Release(), then the uid is returned
UpdateRelease(t) ==
    /\ pc[t] = "UpdateRelease"
    /\ IF ~CanRelease(PageOf(t))
       THEN Panic(t, "release of an unpinned page")
       ELSE /\ pin' = [pin EXCEPT ![PageOf(t)] = @ - 1]
            /\ ret' = [ret EXCEPT ![t] = [kind |-> "uid", uid |-> op[t].uid,
                                          data |-> op[t].data]]
            /\ pc' = [pc EXCEPT ![t] = "idle"]
            /\ op' = [op EXCEPT ![t] = NoOp]
            /\ UNCHANGED <<proc, disk, mem, rlog, tm, hist, ctlVars, pageLock>>

\* Delete: LOG FIRST
DeleteLog(t) ==
    /\ pc[t] = "DeleteLog"
    /\ LET oldRaw == getDataItem(mem.pages[PageOf(t)], OffsetOf(t))
       IN  rlog' = Append(rlog, [kind |-> "update", xid |-> op[t].xid,
                                 uid |-> op[t].uid, old |-> oldRaw,
                                 new |-> SetRawInvalid(oldRaw)])
    /\ pc' = [pc EXCEPT ![t] = "DeleteSetInvalid"]
    /\ UNCHANGED <<proc, disk, mem, pin, tm, hist, ctlVars, op, ret, pageLock>>

\* Delete: di.SetInvalid()
DeleteSetInvalid(t) ==
    /\ pc[t] = "DeleteSetInvalid"
    /\ mem' = [mem EXCEPT !.pages = WriteFrame(@, op[t].uid,
                   SetRawInvalid(getDataItem(mem.pages[PageOf(t)], OffsetOf(t))))]
    /\ hist' = [hist EXCEPT !.deleted = @ \cup {op[t].uid}]
    /\ pc' = [pc EXCEPT ![t] = "DeleteRelease"]
    /\ UNCHANGED <<proc, disk, pin, rlog, tm, ctlVars, op, ret, pageLock>>

\* Delete: di.Release(), whether or not Read returned an item; Update then
\* goes on to Insert
DeleteRelease(t) ==
    /\ pc[t] = "DeleteRelease"
    /\ IF op[t].di.kind = "nil"
       THEN Panic(t, "nil pointer dereference")
       ELSE IF ~CanRelease(PageOf(t))
       THEN Panic(t, "release of an unpinned page")
       ELSE /\ pin' = [pin EXCEPT ![PageOf(t)] = @ - 1]
            /\ IF op[t].kind = "delete"
               THEN /\ ret' = [ret EXCEPT ![t] = [kind |-> "done", uid |-> op[t].uid]]
                    /\ pc' = [pc EXCEPT ![t] = "idle"]
                    /\ op' = [op EXCEPT ![t] = NoOp]
                    /\ UNCHANGED <<proc, disk, mem, rlog, tm, hist, ctlVars, pageLock>>
               ELSE InsertEnter(t, "update", op[t].xid, op[t].data)

----------------------------------------------------------------------------
(* Spec: the data manager on a paged file. *)

Init ==
    /\ proc = "down"
    /\ \E f \in Files, vl \in Versions, vs \in Versions :
          disk = [ptype |-> DbMetaPage, vLive |-> vl, vShadow |-> vs, pages |-> f]
    /\ mem = disk
    /\ pin = [p \in {PageNumberDbMeta} \cup DOMAIN disk.pages |-> 0]
    /\ rlog = <<>>
    /\ tm = [x \in Xids |-> "active"]
    /\ hist = NoHist
    /\ index = NewPageCtl
    /\ ctlLock = FALSE
    /\ pc = [t \in Threads |-> "idle"]
    /\ op = [t \in Threads |-> NoOp]
    /\ ret = [t \in Threads |-> None]
    /\ pageLock = 0

Next ==
    \/ Open
    \/ InitResetLog
    \/ InitVersionStep
    \/ InitFlush
    \/ InitPageCtl
    \/ CloseUpdateVersion
    \/ CloseCache
    \/ Kill
    \/ \E p \in DOMAIN mem.pages : Flush(p)
    \/ \E x \in Xids : TmCommit(x)
    \/ \E t \in Threads, u \in Uids(mem.pages) : Read(t, u)
    \/ \E t \in Threads, x \in Xids, u \in Uids(mem.pages), d \in Payloads :
          Update(t, x, u, d)
    \/ \E t \in Threads, x \in Xids, u \in Uids(mem.pages) : Delete(t, x, u)
    \/ \E t \in Threads, x \in Xids, d \in Payloads : Insert(t, x, d)
    \/ \E t \in Threads : ReadGetPage(t)
    \/ \E t \in Threads : ReadRelease(t)
    \/ \E t \in Threads : UpdateLog(t)
    \/ \E t \in Threads : UpdateItem(t)
    \/ \E t \in Threads : UpdateRelease(t)
    \/ \E t \in Threads : DeleteLog(t)
    \/ \E t \in Threads : DeleteSetInvalid(t)
    \/ \E t \in Threads : DeleteRelease(t)
    \/ \E t \in Threads : SelectLock(t)
    \/ \E t \in Threads : SelectBody(t)

Spec == Init /\ [][Next]_vars

----------------------------------------------------------------------------
(* History read by the claims. *)

\* the process died (kill or panic) while it was in one of these positions
DiedIn(positions) ==
    hist.exit \in {"killed", "panic"} /\ hist.at \in positions

\* the bytes InitVersion drew differ from the V_shadow it left in place
MarkersDistinct == hist.drawn # hist.shadow0

\* the frame at uid
FrameAt(pages, uid) == getDataItem(pages[uidTrans(uid)[1]], uidTrans(uid)[2])

\* what Read yields for a frame
ReadOfFrame(uid, raw) ==
    IF IsValid(raw) THEN [kind |-> "item", uid |-> uid, data |-> GetData(raw)]
    ELSE [kind |-> "nil", uid |-> uid]

\* after a crash during operation and the start-up that follows (the log is
\* not yet reset): every log record whose transaction committed is read with
\* the payload it wrote, and the write of every other record is not seen
RecoveredAsLogged ==
    \A i \in 1..Len(rlog) :
        LET w == rlog[i]
        IN  /\ (tm[w.xid] = "committed"
                  /\ \A j \in (i + 1)..Len(rlog) : rlog[j].uid # w.uid)
               => ReadResult(mem.pages, w.uid) = ReadOfFrame(w.uid, w.new)
            /\ (tm[w.xid] # "committed"
                  /\ \A j \in 1..(i - 1) :
                        rlog[j].uid = w.uid => tm[rlog[j].xid] = "committed")
               => ReadResult(mem.pages, w.uid) = ReadOfFrame(w.uid, w.old)

----------------------------------------------------------------------------
(* C1: every Insert returns a uid (and a Read of it yields the payload):   *)
(* no Insert call is left parked inside Select.                            *)
C1_InsertReturns ==
    \A t \in Threads : op[t].kind = "insert" => pc[t] # "SelectDeferLock"

----------------------------------------------------------------------------
----------------------------------------------------------------------------
----------------------------------------------------------------------------
----------------------------------------------------------------------------
(* C5: once Delete(xid, uid) has acted, every Read(uid) that returns       *)
(* returns none (hist.deleted: the uids Delete has acted on since the      *)
(* process was last killed).                                               *)
C5_NoneAfterDelete ==
    [][\A t \in Threads :
          (/\ pc[t] = "ReadRelease"
           /\ op[t].kind = "read"
           /\ op[t].uid \in hist.deleted
           /\ pc'[t] = "idle"
           /\ proc' = "running")
              => ret'[t].kind = "nil"]_vars

----------------------------------------------------------------------------
(* C6: an Update whose framed data is no longer than the record at uid     *)
(* returns, and returns the input uid: its last step never ends the        *)
(* process.                                                                *)
C6_UpdateInPlaceReturns ==
    ~(hist.exit = "panic" /\ hist.by = [kind |-> "update", pc |-> "UpdateRelease"])

----------------------------------------------------------------------------
(* C7: an Update whose framed data is longer than the record at uid        *)
(* completes (and returns another uid): it neither ends the process in its *)
(* Delete nor stays parked in the Select of its Insert.                    *)
C7_UpdateGrowCompletes ==
    /\ ~(hist.exit = "panic" /\ hist.by = [kind |-> "update", pc |-> "DeleteRelease"])
    /\ \A t \in Threads : op[t].kind = "update" => pc[t] # "SelectDeferLock"

----------------------------------------------------------------------------
(* C8: after a clean Close and a re-open, the index PageCtl.Init has built *)
(* holds, for every data page with at least OMITTED free bytes, an entry   *)
(* whose available is PageSize - used of that page (until a Select takes   *)
(* entries out).                                                           *)
C8_IndexRebuilt ==
    (proc = "running" /\ hist.exit = "clean" /\ ~ctlLock)
        => \A p \in DOMAIN mem.pages :
              (mem.pages[p].ptype = DataPage /\ GetFree(mem.pages[p]) >= Omitted)
                  => PageInfo(p, GetFree(mem.pages[p])) \in IndexEntries(index)

----------------------------------------------------------------------------
(* C9: whenever the index holds an entry with available >= n, the body of  *)
(* Select(n) comes to an entry at its return statement, whichever bucket   *)
(* or container holds the sufficient entry.                                *)
C9_SelectFindsSufficient ==
    [][\A t \in Threads :
          (/\ pc[t] = "SelectBody"
           /\ pc'[t] = "SelectDeferLock"
           /\ \E e \in IndexEntries(index) : e.Available >= op[t].need)
              => ret'[t].kind = "entry"]_vars

----------------------------------------------------------------------------
(* C10: Select never yields, at its return statement, an entry whose       *)
(* recorded available is less than the need, from the tiny container or    *)
(* from a bucket.                                                          *)
C10_SelectSufficient ==
    \A t \in Threads :
        (pc[t] = "SelectDeferLock" /\ ret[t].kind = "entry")
            => ret[t].info.Available >= op[t].need

C10_Witness ==
    \E t \in Threads :
        /\ pc[t] = "SelectDeferLock"
        /\ ret[t].kind = "entry"
        /\ op[t].need < TinyTHRESHOLD
        /\ ret[t].info \in index.tiny
        /\ \E e \in index.tiny : e.Available < op[t].need

----------------------------------------------------------------------------
(* C11: when the index holds no entry able to hold the framed record, the  *)
(* Select of an Insert comes to none at its return statement, without      *)
(* failing (Insert then allocates a new page).                             *)
C11_SelectNoneOnMiss ==
    \A t \in Threads :
        (/\ pc[t] = "SelectDeferLock"
         /\ op[t].kind = "insert"
         /\ ~ \E e \in IndexEntries(index) : e.Available >= op[t].need)
            => ret[t].kind = "nil"

----------------------------------------------------------------------------
(* C12: an Insert of a payload of MaxFreeSize - 9 bytes (framed length     *)
(* MaxFreeSize) succeeds, so it is not left inside Select, and an Insert   *)
(* of a longer payload is rejected before it asks for a page.              *)
C12_LargestRecordInserted ==
    \A t \in Threads :
        op[t].kind = "insert" =>
            /\ op[t].need <= MaxFreeSize
            /\ op[t].need = MaxFreeSize => pc[t] # "SelectDeferLock"

----------------------------------------------------------------------------
(* C13: the redo-log record of a mutation is appended before the page      *)
(* bytes change: every step of the running process that changes a page     *)
(* writes the new frame of a record the log already holds.                 *)
C13_LogFirst ==
    [][(proc = "running" /\ proc' = "running" /\ mem'.pages # mem.pages)
          => \E i \in 1..Len(rlog) :
                mem'.pages = WriteFrame(mem.pages, rlog[i].uid, rlog[i].new)]_vars

\* an in-place Update has changed the record, and the log holds the change
C13_Witness ==
    \E t \in Threads :
        /\ pc[t] = "UpdateRelease"
        /\ \E i \in 1..Len(rlog) :
              /\ rlog[i].uid = op[t].uid
              /\ rlog[i].new # rlog[i].old
              /\ rlog[i].new = FrameAt(mem.pages, op[t].uid)

----------------------------------------------------------------------------
(* C14: a valid item returned by Read keeps its page pinned until the item *)
(* is released: while Update or Delete holds the item it has read, the pin *)
(* count of the item's page is positive.                                   *)
C14_ItemKeepsPin ==
    \A t \in Threads :
        (/\ pc[t] \in {"UpdateLog", "UpdateItem", "UpdateRelease",
                       "DeleteLog", "DeleteSetInvalid", "DeleteRelease"}
         /\ op[t].di.kind = "item")
            => pin[PageOf(t)] > 0

----------------------------------------------------------------------------
(* C15: Select releases the mutex of the index before it returns: no call  *)
(* that has come to its return statement still holds PageCtlImpl.lock.     *)
C15_SelectFreesMutex ==
    \A t \in Threads : pc[t] = "SelectDeferLock" => ~ctlLock

----------------------------------------------------------------------------
(* C16: a call of Page.Append or Page.Update on a page whose lock is free  *)
(* terminates: the call never waits for a lock it holds itself.            *)
C16_PageWriteTerminates ==
    \A t \in Threads : pc[t] \in {"PgLock", "PgRLock"} => pageLock # t

----------------------------------------------------------------------------
(* C17: an entry Select yields is taken out of the index, out of the tiny  *)
(* container as well as out of a bucket: when the index holds one entry    *)
(* per page, it holds none for the page Select has yielded.                *)
C17_SelectedEntryRemoved ==
    [][\A t \in Threads :
          (/\ pc[t] = "SelectBody"
           /\ pc'[t] = "SelectDeferLock"
           /\ ret'[t].kind = "entry"
           /\ IndexSize(index) = Cardinality({e.PageId : e \in IndexEntries(index)}))
              => \A e \in IndexEntries(index') : e.PageId # ret'[t].info.PageId]_vars

----------------------------------------------------------------------------
(* C20: a Delete of a record that is already tombstoned completes without  *)
(* a fatal error.                                                          *)
C20_DeleteOfTombstoned ==
    ~(/\ hist.exit = "panic"
      /\ hist.by = [kind |-> "delete", pc |-> "DeleteRelease"]
      /\ hist.why = "nil pointer dereference")

=============================================================================
